---- MODULE Spec2Model ----
(***************************************************************************)
(* Model of deque/src/deque.rs: a doubly linked deque whose nodes are      *)
(* Rc<RefCell<DequeNode<E>>> cells.  Both next and prev are strong Rc      *)
(* handles, so the heap is modelled explicitly: a node stays allocated     *)
(* until its last strong handle is dropped.                                *)
(* Also modelled: trie/src/trie.rs (Trie::insert, Trie::contains) and      *)
(* async/src/pure.rs (block_on and ThreadWaker on top of thread::park).    *)
(***************************************************************************)
EXTENDS Integers, Sequences, FiniteSets

\* ------------------------------------------------------------------ bounds
MaxNodes == 10      \* heap cells available to Rc::new
MaxOps   == 5       \* calls made on one deque under Spec
MaxFill  == 5       \* values pushed before draining under SpecFillDrain
MaxElem  == 2       \* values pushed under Spec and SpecFillDrain: 1..MaxElem
MaxIter  == 5       \* values pushed before iterating under SpecIter
MaxChar  == 2       \* characters of trie tokens: 1..MaxChar
MaxTokenLen == 2    \* longest trie token
MaxInserts  == 3    \* Trie::insert calls on one trie
MaxOut   == 2       \* outputs of the future given to block_on: 1..MaxOut
MaxWakes == 2       \* wake calls the future makes besides the one at completion
MaxSpurious == 2    \* returns of thread::park without an unpark
TestN    == 10      \* tests::test_mixed pushes 0..10

NodeIds == 1..MaxNodes
Elems   == 1..MaxElem

\* Option<Rc<..>>: Nil is None, a node id is Some(rc).
Nil == 0
\* Option<E>: the empty tuple is None, a one-element tuple is Some(v).
None == <<>>
Some(v) == <<v>>

VARIABLES
    head,       \* Deque.head
    tail,       \* Deque.tail
    size,       \* Deque.size
    heap,       \* allocated DequeNode cells: id -> [next, prev, elem]
    ret,        \* value returned by the last call
    panicked,   \* a call panicked (Option::unwrap on None)
    alive,      \* the Deque value has not been dropped yet
    hist,       \* calls made so far: [op, arg, ret, size (observed after)]
    trie_root,  \* Trie.root: path from the root -> eow of the node there
    trie_size,  \* Trie.size
    inserted,   \* tokens given to Trie::insert so far
    query,      \* last Trie::contains call: <<>> or <<token, result>>
    bo_pc,      \* block_on: "poll" (line 28), "park" (about to call
                \* thread::park, line 30), "parked" (blocked in it), "done"
    park_token, \* the park token of the thread that called block_on
    fut_ready,  \* the future's output: None until it is available
    fut_waker,  \* the future holds a clone of the waker it was polled with
    fut_notify, \* the future became ready and has yet to wake its waker
    res,        \* value returned by block_on: None until it returns
    polls,      \* polls made by block_on
    wakes,      \* wake calls made before / besides the one at completion
    spurious,   \* times thread::park returned without an unpark
    raced       \* a wake arrived after a Pending poll and before thread::park

dequeVars == <<head, tail, size, heap, ret, panicked, alive, hist>>
trieVars  == <<trie_root, trie_size, inserted, query>>
asyncVars == <<bo_pc, park_token, fut_ready, fut_waker, fut_notify, res,
               polls, wakes, spurious, raced>>
vars == <<head, tail, size, heap, ret, panicked, alive, hist,
          trie_root, trie_size, inserted, query,
          bo_pc, park_token, fut_ready, fut_waker, fut_notify, res,
          polls, wakes, spurious, raced>>

\* The Deque value together with the heap it points into.
Self == [head |-> head, tail |-> tail, size |-> size, heap |-> heap]

\* ------------------------------------------------------------ Rc machinery
\* Number of strong handles to node n held by the deque and by heap cells.
strong_count(s, n) ==
    (IF s.head = n THEN 1 ELSE 0) + (IF s.tail = n THEN 1 ELSE 0)
    + Cardinality({m \in DOMAIN s.heap : s.heap[m].next = n})
    + Cardinality({m \in DOMAIN s.heap : s.heap[m].prev = n})

\* Rc::new: the address of the fresh cell.
Rc_new(s) == CHOOSE n \in NodeIds \ DOMAIN s.heap :
                 \A m \in NodeIds \ DOMAIN s.heap : n <= m

\* Heap with cell n removed.
dealloc(h, n) == [m \in DOMAIN h \ {n} |-> h[m]]

\* Heap with a new cell n holding node.
alloc(h, n, node) == [m \in DOMAIN h \cup {n} |-> IF m = n THEN node ELSE h[m]]

\* Drop of one strong handle to n that has already been removed from its
\* holder.  When it was the last one the node is dropped: its fields in
\* declaration order (next, prev, elem), then the cell is freed.
RECURSIVE release(_, _)
release(s, n) ==
    IF n = Nil \/ strong_count(s, n) > 0 THEN s
    ELSE LET nx == s.heap[n].next
             pv == s.heap[n].prev
             s1 == release([s EXCEPT !.heap[n].next = Nil], nx)
             s2 == release([s1 EXCEPT !.heap[n].prev = Nil], pv)
         IN [s2 EXCEPT !.heap = dealloc(s2.heap, n)]

\* Rc::try_unwrap(n).ok().unwrap().into_inner().elem, with the caller's local
\* handle being the one handle not counted in s.
try_unwrap(s, n) ==
    IF strong_count(s, n) = 0
    THEN LET nx == s.heap[n].next
             pv == s.heap[n].prev
             e  == s.heap[n].elem
             s1 == [s EXCEPT !.heap = dealloc(s.heap, n)]
             s2 == release(release(s1, nx), pv)
         IN [self |-> s2, ret |-> Some(e), panicked |-> FALSE]
    ELSE [self |-> s, ret |-> None, panicked |-> TRUE]

\* ------------------------------------------------------------------ Deque
new == [head |-> Nil, tail |-> Nil, size |-> 0, heap |-> <<>>]

\* push, head is None
push_None(self, elem) ==
    LET new_head == Rc_new(self)
    IN [self EXCEPT !.heap = alloc(self.heap, new_head,
                                   [next |-> Nil, prev |-> Nil, elem |-> elem]),
                    !.head = new_head,
                    !.tail = new_head]

\* Variant: the back link of the old head is not written.
push_Some_no_prev(self, old_head, elem) ==
    LET new_head == Rc_new(self)
    IN [self EXCEPT !.heap = alloc(self.heap, new_head,
                                   [next |-> old_head, prev |-> Nil, elem |-> elem]),
                    !.head = new_head]

\* push, head is Some(old_head)
push_Some(self, old_head, elem) ==
    LET new_head == Rc_new(self)
        h1 == alloc(self.heap, new_head,
                    [next |-> old_head, prev |-> Nil, elem |-> elem])
    IN [self EXCEPT !.heap = [h1 EXCEPT ![old_head].prev = new_head],
                    !.head = new_head]

\* Variant: the first node is stored in the tail field only.
push_back_None_no_head(self, elem) ==
    LET new_node == Rc_new(self)
    IN [self EXCEPT !.heap = alloc(self.heap, new_node,
                                   [next |-> Nil, prev |-> Nil, elem |-> elem]),
                    !.tail = new_node]

\* push_back, tail is None
push_back_None(self, elem) ==
    LET new_node == Rc_new(self)
    IN [self EXCEPT !.heap = alloc(self.heap, new_node,
                                   [next |-> Nil, prev |-> Nil, elem |-> elem]),
                    !.head = new_node,
                    !.tail = new_node]

\* Variant: the forward link of the old tail is not written.
push_back_Some_no_next(self, old_tail, elem) ==
    LET new_tail == Rc_new(self)
    IN [self EXCEPT !.heap = alloc(self.heap, new_tail,
                                   [next |-> Nil, prev |-> old_tail, elem |-> elem]),
                    !.tail = new_tail]

\* push_back, tail is Some(old_tail)
push_back_Some(self, old_tail, elem) ==
    LET new_tail == Rc_new(self)
        h1 == alloc(self.heap, new_tail,
                    [next |-> Nil, prev |-> old_tail, elem |-> elem])
    IN [self EXCEPT !.heap = [h1 EXCEPT ![old_tail].next = new_tail],
                    !.tail = new_tail]

\* Variant: the None arm leaves tail alone.
pop_Some_keep_tail(self, old_head) ==
    LET new_head == self.heap[old_head].next
        h1 == [self.heap EXCEPT ![old_head].next = Nil]
        s1 == IF new_head # Nil
              THEN [self EXCEPT !.head = new_head,
                                !.heap = [h1 EXCEPT ![new_head].prev = Nil]]
              ELSE [self EXCEPT !.head = Nil, !.heap = h1]
        s2 == [s1 EXCEPT !.size = s1.size - 1]
    IN try_unwrap(s2, old_head)

\* Variant: size is not counted down.
pop_Some_no_count(self, old_head) ==
    LET new_head == self.heap[old_head].next
        h1 == [self.heap EXCEPT ![old_head].next = Nil]
        s1 == IF new_head # Nil
              THEN [self EXCEPT !.head = new_head,
                                !.heap = [h1 EXCEPT ![new_head].prev = Nil]]
              ELSE [self EXCEPT !.head = Nil, !.heap = h1, !.tail = Nil]
    IN try_unwrap(s1, old_head)

\* Variant: the new head keeps its prev.
pop_detach_keep_prev(self, old_head) ==
    LET new_head == self.heap[old_head].next
        h1 == [self.heap EXCEPT ![old_head].next = Nil]
        s1 == IF new_head # Nil
              THEN [self EXCEPT !.head = new_head, !.heap = h1]
              ELSE [self EXCEPT !.head = Nil, !.heap = h1, !.tail = Nil]
    IN [s1 EXCEPT !.size = s1.size - 1]

\* pop, head is Some(old_head): the closure up to the extraction, old_head
\* being held by the closure alone
pop_detach(self, old_head) ==
    LET new_head == self.heap[old_head].next
        h1 == [self.heap EXCEPT ![old_head].next = Nil]
        s1 == IF new_head # Nil
              THEN [self EXCEPT !.head = new_head,
                                !.heap = [h1 EXCEPT ![new_head].prev = Nil]]
              ELSE [self EXCEPT !.head = Nil, !.heap = h1, !.tail = Nil]
    IN [s1 EXCEPT !.size = s1.size - 1]

\* pop, head is Some(old_head)
pop_Some(self, old_head) == try_unwrap(pop_detach(self, old_head), old_head)

\* Variant: the Some arm leaves the new tail's next alone.
pop_back_Some_keep_next(self, old_tail) ==
    LET new_tail == self.heap[old_tail].prev
        h1 == [self.heap EXCEPT ![old_tail].prev = Nil]
        s1 == IF new_tail # Nil
              THEN [self EXCEPT !.tail = new_tail, !.heap = h1]
              ELSE [self EXCEPT !.tail = Nil, !.heap = h1, !.head = Nil]
        s2 == [s1 EXCEPT !.size = s1.size - 1]
    IN try_unwrap(s2, old_tail)

\* Variant: the None arm leaves head alone.
pop_back_Some_keep_head(self, old_tail) ==
    LET new_tail == self.heap[old_tail].prev
        h1 == [self.heap EXCEPT ![old_tail].prev = Nil]
        s1 == IF new_tail # Nil
              THEN [self EXCEPT !.tail = new_tail,
                                !.heap = [h1 EXCEPT ![new_tail].next = Nil]]
              ELSE [self EXCEPT !.tail = Nil, !.heap = h1]
        s2 == [s1 EXCEPT !.size = s1.size - 1]
    IN try_unwrap(s2, old_tail)

\* pop_back, tail is Some(old_tail): the closure up to the extraction,
\* old_tail being held by the closure alone
pop_back_detach(self, old_tail) ==
    LET new_tail == self.heap[old_tail].prev
        h1 == [self.heap EXCEPT ![old_tail].prev = Nil]
        s1 == IF new_tail # Nil
              THEN [self EXCEPT !.tail = new_tail,
                                !.heap = [h1 EXCEPT ![new_tail].next = Nil]]
              ELSE [self EXCEPT !.tail = Nil, !.heap = h1, !.head = Nil]
    IN [s1 EXCEPT !.size = s1.size - 1]

\* pop_back, tail is Some(old_tail)
pop_back_Some(self, old_tail) ==
    try_unwrap(pop_back_detach(self, old_tail), old_tail)

\* Variant: inserts at the tail, as push_back does.
push_at_tail(self, elem) ==
    LET s == IF self.tail = Nil THEN push_back_None(self, elem)
                                ELSE push_back_Some(self, self.tail, elem)
    IN [s EXCEPT !.size = s.size + 1]

\* Variant: size is not counted up.
push_no_count(self, elem) ==
    IF self.head = Nil THEN push_None(self, elem)
                       ELSE push_Some(self, self.head, elem)

push(self, elem) ==
    LET s == IF self.head = Nil THEN push_None(self, elem)
                                ELSE push_Some(self, self.head, elem)
    IN [s EXCEPT !.size = s.size + 1]

\* Variant: inserts at the head, as push does.
push_back_at_head(self, elem) ==
    LET s == IF self.head = Nil THEN push_None(self, elem)
                                ELSE push_Some(self, self.head, elem)
    IN [s EXCEPT !.size = s.size + 1]

push_back(self, elem) ==
    LET s == IF self.tail = Nil THEN push_back_None(self, elem)
                                ELSE push_back_Some(self, self.tail, elem)
    IN [s EXCEPT !.size = s.size + 1]

\* Variant: size is counted down on the empty deque too.
pop_count_always(self) ==
    IF self.head = Nil
    THEN [self |-> [self EXCEPT !.size = self.size - 1], ret |-> None,
          panicked |-> FALSE]
    ELSE pop_Some(self, self.head)

\* Variant: removes at the tail, as pop_back does.
pop_at_tail(self) ==
    IF self.tail = Nil
    THEN [self |-> self, ret |-> None, panicked |-> FALSE]
    ELSE pop_back_Some(self, self.tail)

pop(self) ==
    IF self.head = Nil
    THEN [self |-> self, ret |-> None, panicked |-> FALSE]
    ELSE pop_Some(self, self.head)

\* Variant: removes at the head, as pop does.
pop_back_at_head(self) ==
    IF self.head = Nil
    THEN [self |-> self, ret |-> None, panicked |-> FALSE]
    ELSE pop_Some(self, self.head)

pop_back(self) ==
    IF self.tail = Nil
    THEN [self |-> self, ret |-> None, panicked |-> FALSE]
    ELSE pop_back_Some(self, self.tail)

\* Variant: takes from the back.
next_at_tail(self) == pop_back(self)

\* Iterator::next
next(self) == pop(self)

\* Variant: takes from the front.
next_back_at_head(self) == pop(self)

\* DoubleEndedIterator::next_back
next_back(self) == pop_back(self)

\* Drop glue of Deque (no Drop impl): the fields in declaration order.
drop(self) ==
    LET s1 == release([self EXCEPT !.head = Nil], self.head)
    IN release([s1 EXCEPT !.tail = Nil], self.tail)

\* ------------------------------------------------------------------- Trie
\* A token is a sequence of characters.  The nested HashMap<char, {eow,
\* child_map}> is kept as a map from the path of characters leading to a node
\* to that node's eow; a path is a key of the map exactly when every
\* HashMap on the way holds its character.
Chars  == 1..MaxChar
Tokens == UNION {[1..k -> Chars] : k \in 0..MaxTokenLen}

Trie_new == [root |-> <<>>, size |-> 0]

\* the for loop of insert, from the ix-th character on
RECURSIVE insert_loop(_, _, _)
insert_loop(root, token, ix) ==
    IF ix > Len(token) THEN root
    ELSE LET path == SubSeq(token, 1, ix)
             r1 == IF path \in DOMAIN root THEN root
                   ELSE [q \in DOMAIN root \cup {path} |->
                            IF q = path THEN FALSE ELSE root[q]]
             r2 == IF ix = Len(token) THEN [r1 EXCEPT ![path] = TRUE] ELSE r1
         IN insert_loop(r2, token, ix + 1)

insert(self, token) ==
    [root |-> insert_loop(self.root, token, 1), size |-> self.size + 1]

\* the for loop of contains, from the ix-th character on
RECURSIVE contains_loop(_, _, _)
contains_loop(root, token, ix) ==
    IF ix > Len(token) THEN FALSE
    ELSE LET path == SubSeq(token, 1, ix)
         IN IF path \notin DOMAIN root THEN FALSE
            ELSE IF ix = Len(token) /\ root[path] = TRUE THEN TRUE
            ELSE contains_loop(root, token, ix + 1)

contains(self, token) == contains_loop(self.root, token, 1)

\* ---------------------------------------------------------------- actions
InitData ==
    /\ trie_root = Trie_new.root
    /\ trie_size = Trie_new.size
    /\ inserted = {}
    /\ query = <<>>
    /\ head = new.head
    /\ tail = new.tail
    /\ size = new.size
    /\ heap = new.heap
    /\ ret = None
    /\ panicked = FALSE
    /\ alive = TRUE
    /\ hist = <<>>

\* block_on has built its waker and context and is about to poll (lines 19-27)
InitAsync ==
    /\ bo_pc = "poll"
    /\ fut_ready = None
    /\ fut_waker = FALSE
    /\ fut_notify = FALSE
    /\ res = None
    /\ polls = 0
    /\ wakes = 0
    /\ spurious = 0
    /\ raced = FALSE

Init ==
    /\ InitData
    /\ InitAsync
    /\ park_token = FALSE

Running == alive /\ ~panicked

\* The deque fields and heap become s.
Store(s) ==
    /\ head' = s.head
    /\ tail' = s.tail
    /\ size' = s.size
    /\ heap' = s.heap

CallPush(e) ==
    /\ Running
    /\ Cardinality(DOMAIN heap) < MaxNodes
    /\ Store(push(Self, e))
    /\ ret' = None
    /\ hist' = Append(hist, [op |-> "push", arg |-> Some(e), ret |-> None,
                             size |-> size'])
    /\ UNCHANGED <<panicked, alive>>
    /\ UNCHANGED trieVars
    /\ UNCHANGED asyncVars

CallPushBack(e) ==
    /\ Running
    /\ Cardinality(DOMAIN heap) < MaxNodes
    /\ Store(push_back(Self, e))
    /\ ret' = None
    /\ hist' = Append(hist, [op |-> "push_back", arg |-> Some(e), ret |-> None,
                             size |-> size'])
    /\ UNCHANGED <<panicked, alive>>
    /\ UNCHANGED trieVars
    /\ UNCHANGED asyncVars

CallPop ==
    /\ Running
    /\ LET r == pop(Self)
       IN /\ Store(r.self)
          /\ ret' = r.ret
          /\ panicked' = r.panicked
          /\ hist' = Append(hist, [op |-> "pop", arg |-> None, ret |-> r.ret,
                                   size |-> r.self.size])
    /\ UNCHANGED alive
    /\ UNCHANGED trieVars
    /\ UNCHANGED asyncVars

CallPopBack ==
    /\ Running
    /\ LET r == pop_back(Self)
       IN /\ Store(r.self)
          /\ ret' = r.ret
          /\ panicked' = r.panicked
          /\ hist' = Append(hist, [op |-> "pop_back", arg |-> None, ret |-> r.ret,
                                   size |-> r.self.size])
    /\ UNCHANGED alive
    /\ UNCHANGED trieVars
    /\ UNCHANGED asyncVars

CallNext ==
    /\ Running
    /\ LET r == next(Self)
       IN /\ Store(r.self)
          /\ ret' = r.ret
          /\ panicked' = r.panicked
          /\ hist' = Append(hist, [op |-> "next", arg |-> None, ret |-> r.ret,
                                   size |-> r.self.size])
    /\ UNCHANGED alive
    /\ UNCHANGED trieVars
    /\ UNCHANGED asyncVars

CallNextBack ==
    /\ Running
    /\ LET r == next_back(Self)
       IN /\ Store(r.self)
          /\ ret' = r.ret
          /\ panicked' = r.panicked
          /\ hist' = Append(hist, [op |-> "next_back", arg |-> None, ret |-> r.ret,
                                   size |-> r.self.size])
    /\ UNCHANGED alive
    /\ UNCHANGED trieVars
    /\ UNCHANGED asyncVars

\* The deque goes out of scope.
Drop ==
    /\ Running
    /\ Store(drop(Self))
    /\ alive' = FALSE
    /\ UNCHANGED <<ret, panicked, hist>>
    /\ UNCHANGED trieVars
    /\ UNCHANGED asyncVars

Next ==
    \/ Len(hist) < MaxOps /\ \E e \in Elems : CallPush(e)
    \/ Len(hist) < MaxOps /\ \E e \in Elems : CallPushBack(e)
    \/ Len(hist) < MaxOps /\ CallPop
    \/ Len(hist) < MaxOps /\ CallPopBack
    \/ Drop

Spec == Init /\ [][Next]_vars

\* tests::test_mixed, generalised: values 0, 1, 2, ... are pushed in increasing
\* order, each at either end (the test sends even ones to push and odd ones to
\* push_back), then the deque is popped from the front until pop returns None,
\* and the deque goes out of scope.
IsPush(x) == x.op \in {"push", "push_back"}
IsPop(x)  == x.op \in {"pop", "pop_back"}

MixedFilling  == Len(hist) < TestN /\ \A i \in 1..Len(hist) : IsPush(hist[i])
Draining == hist # <<>> /\ ~(IsPop(hist[Len(hist)]) /\ hist[Len(hist)].ret = None)
Drained  == hist # <<>> /\ IsPop(hist[Len(hist)]) /\ hist[Len(hist)].ret = None

NextMixed ==
    \/ MixedFilling /\ CallPush(Len(hist))
    \/ MixedFilling /\ CallPushBack(Len(hist))
    \/ Draining /\ CallPop
    \/ Drained /\ Drop

SpecMixed == Init /\ [][NextMixed]_vars

\* Fill and drain: up to MaxFill values from Elems are pushed, each at either
\* end, then the deque is emptied by calls at one end until one returns None,
\* and the deque goes out of scope.
FDFilling == Len(hist) < MaxFill /\ \A i \in 1..Len(hist) : IsPush(hist[i])
FDDraining(op) ==
    /\ Draining
    /\ \A i \in 1..Len(hist) : IsPop(hist[i]) => hist[i].op = op

NextFillDrain ==
    \/ FDFilling /\ \E e \in Elems : CallPush(e)
    \/ FDFilling /\ \E e \in Elems : CallPushBack(e)
    \/ FDDraining("pop") /\ CallPop
    \/ FDDraining("pop_back") /\ CallPopBack
    \/ Drained /\ Drop

SpecFillDrain == Init /\ [][NextFillDrain]_vars

\* Iteration (tests::test_iterator, generalised): values 0, 1, 2, ... are
\* pushed, each at either end, then the deque is consumed through next and
\* next_back in any order, up to two calls past the first None, and goes out
\* of scope once a call has returned None.
IsIter(x) == x.op \in {"next", "next_back"}
NumEnded  == Cardinality({i \in 1..Len(hist) : IsIter(hist[i]) /\ hist[i].ret = None})
IterFilling == Len(hist) < MaxIter /\ \A i \in 1..Len(hist) : IsPush(hist[i])
Iterating   == NumEnded < 2

NextIter ==
    \/ IterFilling /\ CallPush(Len(hist))
    \/ IterFilling /\ CallPushBack(Len(hist))
    \/ Iterating /\ CallNext
    \/ Iterating /\ CallNextBack
    \/ NumEnded >= 1 /\ Drop

SpecIter == Init /\ [][NextIter]_vars

\* Trie: tokens are inserted and looked up in any order.
TrieSelf == [root |-> trie_root, size |-> trie_size]

CallInsert(t) ==
    /\ trie_size < MaxInserts
    /\ LET s == insert(TrieSelf, t)
       IN trie_root' = s.root /\ trie_size' = s.size
    /\ inserted' = inserted \cup {t}
    /\ UNCHANGED query
    /\ UNCHANGED dequeVars
    /\ UNCHANGED asyncVars

CallContains(t) ==
    /\ query' = <<t, contains(TrieSelf, t)>>
    /\ UNCHANGED <<trie_root, trie_size, inserted>>
    /\ UNCHANGED dequeVars
    /\ UNCHANGED asyncVars

NextTrie ==
    \/ \E t \in Tokens : CallInsert(t)
    \/ \E t \in Tokens : CallContains(t)

SpecTrie == Init /\ [][NextTrie]_vars

\* ------------------------------------------------------- history helpers
NumPushes  == Cardinality({i \in 1..Len(hist) : IsPush(hist[i])})
NumPopped  == Cardinality({i \in 1..Len(hist) : IsPop(hist[i]) /\ hist[i].ret # None})
SizeBefore(i) == IF i = 1 THEN 0 ELSE hist[i-1].size
Last == hist[Len(hist)]
Reverse(q) == [i \in 1..Len(q) |-> q[Len(q) + 1 - i]]
Distinct(q) == \A i, j \in 1..Len(q) : i # j => q[i] # q[j]

\* Nodes met from n along next ("next") or prev ("prev"), at most fuel of them.
RECURSIVE walk(_, _, _, _)
walk(h, n, dir, fuel) ==
    IF n = Nil \/ n \notin DOMAIN h \/ fuel = 0 THEN <<>>
    ELSE <<n>> \o walk(h, IF dir = "next" THEN h[n].next ELSE h[n].prev, dir, fuel - 1)

Fuel == Cardinality(DOMAIN heap) + 1
FromHead == walk(heap, head, "next", Fuel)
FromTail == walk(heap, tail, "prev", Fuel)

\* ------------------------------------------------------------------ claims

\* C1: between calls, size equals the number of pushes (push, push_back) made
\* so far minus the number of pops (pop, pop_back) that returned an element.
C1_SizeIsPushesMinusPops == size = NumPushes - NumPopped

C1_Witness ==
    /\ size > 0
    /\ \E i, j, k \in 1..Len(hist) :
          /\ hist[i].op = "push" /\ hist[j].op = "push_back"
          /\ IsPop(hist[k]) /\ hist[k].ret = None
    /\ \E i \in 1..Len(hist) : IsPop(hist[i]) /\ hist[i].ret # None

\* C2: while the deque exists, size is 0 exactly when head and tail are both
\* absent, and head is absent exactly when tail is.
C2_EmptyIffNoEnds ==
    alive => /\ (size = 0) <=> (head = Nil /\ tail = Nil)
             /\ (head = Nil) <=> (tail = Nil)

C2_Witness ==
    /\ alive /\ size = 0 /\ head = Nil /\ tail = Nil
    /\ \E i \in 1..Len(hist) : IsPop(hist[i]) /\ hist[i].ret # None

\* C3: while the deque exists, the nodes met from head along next are size
\* distinct nodes the last of which is tail, and the nodes met from tail along
\* prev are size distinct nodes the last of which is head.
C3_ChainIsSimplePath ==
    alive => /\ Len(FromHead) = size /\ Distinct(FromHead)
             /\ (FromHead # <<>> => FromHead[Len(FromHead)] = tail)
             /\ Len(FromTail) = size /\ Distinct(FromTail)
             /\ (FromTail # <<>> => FromTail[Len(FromTail)] = head)

C3_Witness ==
    /\ alive /\ size >= 3
    /\ \E i, j \in 1..Len(hist) : hist[i].op = "push_back" /\ hist[j].op = "pop_back"
                                    /\ hist[j].ret # None /\ i < j

\* C4: for all allocated nodes n and m, n.next is m exactly when m.prev is n.
C4_LinksMutual ==
    \A n, m \in DOMAIN heap : (heap[n].next = m) <=> (heap[m].prev = n)

C4_Witness ==
    /\ alive /\ size >= 3
    /\ \E i, j \in 1..Len(hist) : hist[i].op = "push" /\ hist[j].op = "push_back"
    /\ \E n, m \in DOMAIN heap : heap[n].next = m /\ heap[m].prev = n

\* C5: while the deque exists and size > 0, head and tail are allocated, the
\* head node has no prev and the tail node has no next.
C5_EndsHaveNoOuterLink ==
    (alive /\ size > 0) =>
        /\ head \in DOMAIN heap /\ tail \in DOMAIN heap
        /\ heap[head].prev = Nil
        /\ heap[tail].next = Nil

\* size > 0 right after a pop_back that removed a node, itself after a pop
\* that removed a node
C5_Witness ==
    /\ alive /\ size > 0 /\ Len(hist) >= 2
    /\ Last.op = "pop_back" /\ Last.ret # None
    /\ hist[Len(hist) - 1].op = "pop" /\ hist[Len(hist) - 1].ret # None

\* C6: once a deque has been dropped, no node remains allocated.
C6_DropFreesAllNodes == ~alive => DOMAIN heap = {}

\* C7: pop or pop_back called with size = 0 returns None, does not panic, and
\* leaves head, tail, size and the heap as they were.
C7_PopOnEmpty ==
    [][ ( /\ size = 0
          /\ Len(hist') = Len(hist) + 1
          /\ IsPop(hist'[Len(hist')]) )
        => ( /\ ret' = None /\ ~panicked'
             /\ head' = head /\ tail' = tail /\ heap' = heap
             /\ size' = 0 ) ]_vars

\* a pop_back on a deque emptied by a pop, followed by a pop on it
C7_Witness ==
    /\ Len(hist) >= 4
    /\ Last.op = "pop" /\ Last.ret = None
    /\ hist[Len(hist) - 1].op = "pop_back" /\ hist[Len(hist) - 1].ret = None
    /\ hist[Len(hist) - 2].op = "pop" /\ hist[Len(hist) - 2].ret # None
    /\ alive /\ ~panicked /\ size = 0

\* n calls of op from position i on
RunOf(op, i, n) == i + n - 1 <= Len(hist) /\ \A p \in i..(i + n - 1) : hist[p].op = op

\* C8: whenever n values are pushed at one end of an empty deque and the
\* next m <= n calls pop at that same end, the m-th of them returns the
\* (n - m + 1)-th value pushed and leaves size = n - m.
C8_LifoAtOneEnd ==
    \A X \in {<<"push", "pop">>, <<"push_back", "pop_back">>} :
      \A i \in 1..Len(hist) : \A n \in 1..Len(hist) :
        (SizeBefore(i) = 0 /\ RunOf(X[1], i, n)) =>
          \A m \in 1..n :
            RunOf(X[2], i + n, m) =>
              /\ hist[i + n + m - 1].ret = hist[i + n - m].arg
              /\ hist[i + n + m - 1].size = n - m

C8_Witness ==
    /\ Len(hist) = 6 /\ size = 0
    /\ RunOf("push_back", 1, 3) /\ RunOf("pop_back", 4, 3)
    /\ hist[1].arg # hist[3].arg
    /\ Last.ret = hist[1].arg

\* values pushed by push / by push_back, in call order
Pushed(op) ==
    LET q == SelectSeq(hist, LAMBDA x : x.op = op)
    IN [i \in 1..Len(q) |-> q[i].arg[1]]
Pops == SelectSeq(hist, IsPop)
TestMixedPattern ==
    /\ NumPushes = TestN
    /\ \A i \in 1..TestN : hist[i].op = IF (i - 1) % 2 = 0 THEN "push" ELSE "push_back"
TestMixedExpected == <<8, 6, 4, 2, 0, 1, 3, 5, 7, 9>>

\* C9: after any interleaving of push and push_back on an empty deque, the
\* j-th pop returns the j-th value of (values given to push, latest first)
\* followed by (values given to push_back, earliest first) and leaves size
\* one smaller; the pop after the last value returns None.  With 0..9 pushed,
\* even ones by push and odd ones by push_back, the pops return
\* 8, 6, 4, 2, 0, 1, 3, 5, 7, 9.
C9_MixedDrainOrder ==
    LET expected == Reverse(Pushed("push")) \o Pushed("push_back")
    IN /\ \A j \in 1..Len(Pops) :
            IF j <= NumPushes
            THEN Pops[j].ret = Some(expected[j]) /\ Pops[j].size = NumPushes - j
            ELSE Pops[j].ret = None /\ Pops[j].size = 0
       /\ TestMixedPattern =>
            \A j \in 1..Len(Pops) :
                Pops[j].ret = IF j <= TestN THEN Some(TestMixedExpected[j]) ELSE None

C9_Witness ==
    /\ TestMixedPattern
    /\ Len(Pops) = TestN + 1
    /\ Last.ret = None
    /\ Pops[5].ret = Some(0) /\ Pops[6].ret = Some(1)

\* C10: whenever n values are given to push_back on an empty deque and the
\* next m <= n + 1 calls are pop, the m-th of them returns the m-th value
\* pushed, and the (n + 1)-th returns None.
C10_RoundTrip ==
    \A i \in 1..Len(hist) : \A n \in 1..Len(hist) :
      (SizeBefore(i) = 0 /\ RunOf("push_back", i, n)) =>
        \A m \in 1..(n + 1) :
          RunOf("pop", i + n, m) =>
            hist[i + n + m - 1].ret = IF m <= n THEN hist[i + m - 1].arg ELSE None

C10_Witness ==
    /\ Len(hist) = 7
    /\ RunOf("push_back", 1, 3) /\ RunOf("pop", 4, 4)
    /\ hist[1].arg # hist[3].arg
    /\ hist[4].ret = hist[1].arg /\ hist[6].ret = hist[3].arg
    /\ Last.ret = None

\* C11: while the deque exists with size = 1, head and tail are the same
\* node, pop and pop_back give the same result (that node's element, head and
\* tail absent, size 0, nothing left allocated), and every pop or pop_back
\* made at size 1 returned an element and left size 0 with both ends absent.
C11_SingleNodeCollapse ==
    /\ (alive /\ size = 1) =>
          /\ head # Nil /\ head = tail
          /\ pop(Self) = pop_back(Self)
          /\ pop(Self).ret = Some(heap[head].elem)
          /\ pop_back(Self).ret = Some(heap[tail].elem)
          /\ pop(Self).self = new
          /\ pop_back(Self).self = new
    /\ \A i \in 1..Len(hist) :
          (IsPop(hist[i]) /\ SizeBefore(i) = 1) =>
              /\ hist[i].ret # None /\ hist[i].size = 0
              /\ (i = Len(hist) /\ alive) => (head = Nil /\ tail = Nil /\ size = 0)

\* a pop_back has just emptied a one-node deque, after a pop had emptied one
C11_Witness ==
    /\ alive /\ Len(hist) >= 4
    /\ Last.op = "pop_back" /\ SizeBefore(Len(hist)) = 1 /\ Last.ret # None
    /\ head = Nil /\ tail = Nil /\ size = 0
    /\ \E i \in 1..Len(hist) :
          hist[i].op = "pop" /\ SizeBefore(i) = 1 /\ hist[i].ret # None

\* what the deque holds, front to back, after the pushes of hist on a new deque
Content == Reverse(Pushed("push")) \o Pushed("push_back")
Iters   == SelectSeq(hist, IsIter)
AllIters(op) == Iters # <<>> /\ \A j \in 1..Len(Iters) : Iters[j].op = op
Emptied == alive => (size = 0 /\ head = Nil /\ tail = Nil /\ DOMAIN heap = {})

\* C12: when a deque holding n elements is consumed by next alone, the j-th
\* call (j <= n) returns the j-th element from the front, n was the size when
\* the iteration began, every later call returns None, and once a call has
\* returned None the deque is empty.
C12_ForwardIteration ==
    AllIters("next") =>
        /\ SizeBefore(NumPushes + 1) = Len(Content)
        /\ \A j \in 1..Len(Iters) :
              Iters[j].ret = IF j <= Len(Content) THEN Some(Content[j]) ELSE None
        /\ Len(Iters) > Len(Content) => Emptied

C12_Witness ==
    /\ AllIters("next") /\ Len(Content) >= 3 /\ Len(Iters) = Len(Content) + 1
    /\ Pushed("push") # <<>> /\ Pushed("push_back") # <<>>
    /\ Last.ret = None /\ size = 0 /\ alive

\* C13: when a deque holding n elements is consumed by next_back alone, the
\* j-th call (j <= n) returns the j-th element from the back, n was the size
\* when the iteration began, every later call returns None, and once a call
\* has returned None the deque is empty.
C13_ReverseIteration ==
    AllIters("next_back") =>
        /\ SizeBefore(NumPushes + 1) = Len(Content)
        /\ \A j \in 1..Len(Iters) :
              Iters[j].ret = IF j <= Len(Content)
                             THEN Some(Reverse(Content)[j]) ELSE None
        /\ Len(Iters) > Len(Content) => Emptied

C13_Witness ==
    /\ AllIters("next_back") /\ Len(Content) >= 3 /\ Len(Iters) = Len(Content) + 1
    /\ Pushed("push") # <<>> /\ Pushed("push_back") # <<>>
    /\ Last.ret = None /\ size = 0 /\ alive

\* entries i..j of hist are all pop or pop_back calls
OnlyPops(i, j) == \A p \in i..j : IsPop(hist[p])

\* C14: once pop has returned None (the forward traversal is over), size is
\* 0; as long as only pop and pop_back are called they return None and the
\* deque equals a new one; and the first push or push_back after that leaves
\* exactly what it leaves on a new deque.
C14_DrainAndReuse ==
    \A i \in 1..Len(hist) :
      (hist[i].op = "pop" /\ hist[i].ret = None) =>
        /\ hist[i].size = 0
        /\ \A j \in i..Len(hist) :
              OnlyPops(i, j) =>
                /\ hist[j].ret = None /\ hist[j].size = 0
                /\ (j = Len(hist) /\ alive) =>
                      /\ Self = new
                      /\ pop(Self).ret = None /\ pop_back(Self).ret = None
                      /\ \A e \in Elems : /\ push(Self, e) = push(new, e)
                                          /\ push_back(Self, e) = push_back(new, e)
                /\ (j + 1 = Len(hist) /\ alive /\ Last.op = "push") =>
                      Self = push(new, Last.arg[1])
                /\ (j + 1 = Len(hist) /\ alive /\ Last.op = "push_back") =>
                      Self = push_back(new, Last.arg[1])

\* push, pop (the element), pop (None), pop_back (None), push_back
C14_Witness ==
    /\ alive /\ Len(hist) = 5
    /\ IsPush(hist[1])
    /\ hist[2].op = "pop" /\ hist[2].ret # None
    /\ hist[3].op = "pop" /\ hist[3].ret = None
    /\ hist[4].op = "pop_back" /\ hist[4].ret = None
    /\ hist[5].op = "push_back" /\ size = 1 /\ head = tail /\ head # Nil

\* C15: once a deque has been dropped, every node of its chain has been
\* detached: no node is left holding a next or prev link.
C15_TeardownUnlinksChain ==
    ~alive => \A n \in DOMAIN heap : heap[n].next = Nil /\ heap[n].prev = Nil

\* C16: contains(t) is true exactly for the tokens t given to insert so far,
\* for every token and for the result of every contains call made.
C16_ContainsIffInserted ==
    /\ \A t \in Tokens : contains(TrieSelf, t) <=> t \in inserted
    /\ query # <<>> => (query[2] <=> query[1] \in inserted)

\* C17: no call panics, and on a non-empty deque the node pop (pop_back)
\* removes has, when its element is extracted, no next, no prev and no handle
\* left in head, tail or any node, so the extraction succeeds.
C17_DetachedBeforeExtract ==
    /\ ~panicked
    /\ (alive /\ head # Nil) =>
          LET s == pop_detach(Self, head)
          IN /\ s.heap[head].next = Nil /\ s.heap[head].prev = Nil
             /\ strong_count(s, head) = 0
             /\ ~pop(Self).panicked /\ pop(Self).ret = Some(heap[head].elem)
    /\ (alive /\ tail # Nil) =>
          LET s == pop_back_detach(Self, tail)
          IN /\ s.heap[tail].next = Nil /\ s.heap[tail].prev = Nil
             /\ strong_count(s, tail) = 0
             /\ ~pop_back(Self).panicked
             /\ pop_back(Self).ret = Some(heap[tail].elem)

\* the interior node of three remains after a pop and a pop_back each
\* returned an element
C17_Witness ==
    /\ alive /\ ~panicked /\ size = 1 /\ Len(hist) = 5
    /\ \E i, j \in 4..5 : /\ hist[i].op = "pop" /\ hist[i].ret # None
                          /\ hist[j].op = "pop_back" /\ hist[j].ret # None

\* C18: a node that no next link and neither head nor tail refers to is
\* reclaimed, whatever prev links refer to it: every allocated node is held
\* by head, by tail or by the next link of an allocated node.
C18_PrevDoesNotOwn ==
    \A n \in DOMAIN heap :
        \/ head = n
        \/ tail = n
        \/ \E m \in DOMAIN heap : heap[m].next = n

\* The abstract sequence after the first k calls of hist, from the calls and
\* their arguments alone: push prepends, push_back appends, pop removes the
\* first element and pop_back the last.
RECURSIVE AbsAfter(_)
AbsAfter(k) ==
    IF k = 0 THEN <<>>
    ELSE LET a == AbsAfter(k - 1)
             x == hist[k]
         IN CASE x.op = "push" -> <<x.arg[1]>> \o a
              [] x.op = "push_back" -> Append(a, x.arg[1])
              [] x.op = "pop" -> IF a = <<>> THEN a ELSE Tail(a)
              [] x.op = "pop_back" -> IF a = <<>> THEN a ELSE SubSeq(a, 1, Len(a) - 1)

\* what the k-th call returns on the abstract sequence
AbsRet(k) ==
    LET a == AbsAfter(k - 1)
        x == hist[k]
    IN CASE x.op = "pop" -> IF a = <<>> THEN None ELSE Some(a[1])
         [] x.op = "pop_back" -> IF a = <<>> THEN None ELSE Some(a[Len(a)])
         [] OTHER -> None

ElemsFromHead == [i \in 1..Len(FromHead) |-> heap[FromHead[i]].elem]

\* C19: after any calls of push, push_back, pop and pop_back, the elements
\* read from head along next are the abstract sequence, and every call
\* returned what the abstract operation returns and left size equal to the
\* length of the abstract sequence.
C19_RefinesSequence ==
    /\ alive => ElemsFromHead = AbsAfter(Len(hist))
    /\ \A k \in 1..Len(hist) :
          /\ hist[k].ret = AbsRet(k)
          /\ hist[k].size = Len(AbsAfter(k))

C19_Witness ==
    /\ alive /\ Len(hist) = 5 /\ size = 1
    /\ \E i, j, k, l \in 1..5 :
          /\ hist[i].op = "push" /\ hist[j].op = "push_back"
          /\ hist[k].op = "pop" /\ hist[k].ret # None
          /\ hist[l].op = "pop_back" /\ hist[l].ret # None
          /\ i < k /\ j < k /\ k < l
    /\ ElemsFromHead = AbsAfter(5) /\ Len(ElemsFromHead) = 1

\* number of op calls among the first j - 1 iteration calls
IterCallsBefore(op, j) == Cardinality({k \in 1..(j - 1) : Iters[k].op = op})

\* C20: on a deque holding n elements, the j-th of any next / next_back
\* calls (j <= n) returns the front-most element not yet returned when it is a
\* next and the back-most one when it is a next_back, the first n calls
\* return n different elements, and every call after the n-th returns None.
C20_TwoEndedIteration ==
    LET n == Len(Content)
    IN /\ \A j \in 1..Len(Iters) :
            IF j <= n
            THEN Iters[j].ret =
                    Some(IF Iters[j].op = "next"
                         THEN Content[IterCallsBefore("next", j) + 1]
                         ELSE Content[n - IterCallsBefore("next_back", j)])
            ELSE Iters[j].ret = None
       /\ \A j, k \in 1..Len(Iters) :
            (j < k /\ k <= n) => Iters[j].ret # Iters[k].ret

\* three or more elements taken from both ends, then two calls returning None
C20_Witness ==
    /\ Len(Content) >= 3 /\ Len(Iters) = Len(Content) + 2
    /\ \E j, k \in 1..Len(Content) :
          j < k /\ Iters[j].op = "next_back" /\ Iters[k].op = "next"
    /\ Iters[Len(Iters) - 1].ret = None /\ Last.ret = None
    /\ Iters[Len(Content)].ret # None

\* the strong handles to node n: the deque's fields and the links of cells
Holders(n) ==
    (IF head = n THEN {<<"head">>} ELSE {})
    \cup (IF tail = n THEN {<<"tail">>} ELSE {})
    \cup {<<"next", m>> : m \in {m \in DOMAIN heap : heap[m].next = n}}
    \cup {<<"prev", m>> : m \in {m \in DOMAIN heap : heap[m].prev = n}}

\* the handles the chain position i of FromHead is expected to be held by
ExpectedHolders(i) ==
    LET k == Len(FromHead)
    IN (IF i = 1 THEN {<<"head">>} ELSE {<<"next", FromHead[i - 1]>>})
       \cup (IF i = k THEN {<<"tail">>} ELSE {<<"prev", FromHead[i + 1]>>})

\* C21: while the deque is alive and no call has panicked, every allocated
\* node is on the chain from head, and every chain node has exactly two
\* strong handles: the head node is held by the head field and by its
\* successor's prev (by the tail field when it is the only node), an interior
\* node by its predecessor's next and its successor's prev, and the tail node
\* by its predecessor's next and the tail field.
C21_TwoStrongHandles ==
    Running =>
        /\ DOMAIN heap = {FromHead[i] : i \in 1..Len(FromHead)}
        /\ \A i \in 1..Len(FromHead) :
              /\ strong_count(Self, FromHead[i]) = 2
              /\ Holders(FromHead[i]) = ExpectedHolders(i)

\* a chain with head, interior and tail nodes, reached through pushes at
\* both ends and a pop that freed a node
C21_Witness ==
    /\ Running /\ size >= 3 /\ Len(FromHead) = size
    /\ \E i \in 1..Len(hist) : IsPop(hist[i]) /\ hist[i].ret # None
    /\ \E i, j \in 1..Len(hist) : hist[i].op = "push" /\ hist[j].op = "push_back"

\* ------------------------------------------------- async/src/pure.rs model
Outs == 1..MaxOut

\* Poll<T>
Pending  == <<"Pending">>
Ready(v) == <<"Ready", v>>

\* The thread captured by the waker (thread::current(), line 22): its park
\* token and whether it is blocked inside thread::park.
Thread == [token |-> park_token, parked |-> bo_pc = "parked"]

\* The future given to block_on, as far as block_on can observe it.
Fut == [ready |-> fut_ready, waker |-> fut_waker]

\* Thread::unpark: makes the token available; a thread blocked in park wakes
\* up, a thread not parked finds the token at its next park.
unpark(th) == [th EXCEPT !.token = TRUE]

\* Variant: the wake-up reaches only a thread that is already blocked in park.
wake_if_parked(th) == IF th.parked THEN [th EXCEPT !.token = TRUE] ELSE th

\* ThreadWaker::wake
wake(th) == unpark(th)

\* thread::park: returns at once, consuming the token, when the token is
\* available; blocks otherwise.
park(th) ==
    IF th.token THEN [token |-> FALSE, parked |-> FALSE]
    ELSE [token |-> FALSE, parked |-> TRUE]

\* fut.as_mut().poll(&mut cx): Ready with the output when it is available,
\* otherwise the future keeps cx's waker and answers Pending.
poll(f) ==
    IF f.ready # None
    THEN [fut |-> f, ret |-> Ready(f.ready[1])]
    ELSE [fut |-> [f EXCEPT !.waker = TRUE], ret |-> Pending]

\* block_on, lines 28-30: one poll and the match on its result
Poll ==
    /\ bo_pc = "poll"
    /\ LET r == poll(Fut)
       IN /\ fut_waker' = r.fut.waker
          /\ IF r.ret[1] = "Ready"
             THEN bo_pc' = "done" /\ res' = Some(r.ret[2])
             ELSE bo_pc' = "park" /\ res' = res
    /\ polls' = polls + 1
    /\ UNCHANGED <<park_token, fut_ready, fut_notify, wakes, spurious, raced>>
    /\ UNCHANGED <<dequeVars, trieVars>>

\* block_on, line 30: the call of thread::park
Park ==
    /\ bo_pc = "park"
    /\ LET th == park(Thread)
       IN /\ park_token' = th.token
          /\ bo_pc' = IF th.parked THEN "parked" ELSE "poll"
    /\ UNCHANGED <<fut_ready, fut_waker, fut_notify, res, polls, wakes,
                   spurious, raced>>
    /\ UNCHANGED <<dequeVars, trieVars>>

\* thread::park returns to the loop after an unpark
Unparked ==
    /\ bo_pc = "parked"
    /\ park_token
    /\ park_token' = FALSE
    /\ bo_pc' = "poll"
    /\ UNCHANGED <<fut_ready, fut_waker, fut_notify, res, polls, wakes,
                   spurious, raced>>
    /\ UNCHANGED <<dequeVars, trieVars>>

\* thread::park returns to the loop without an unpark
SpuriousUnpark ==
    /\ bo_pc = "parked"
    /\ ~park_token
    /\ spurious < MaxSpurious
    /\ spurious' = spurious + 1
    /\ bo_pc' = "poll"
    /\ UNCHANGED <<park_token, fut_ready, fut_waker, fut_notify, res, polls,
                   wakes, raced>>
    /\ UNCHANGED <<dequeVars, trieVars>>

\* the future's output becomes available (on another thread)
Complete(v) ==
    /\ fut_ready = None
    /\ fut_ready' = Some(v)
    /\ fut_notify' = TRUE
    /\ UNCHANGED <<bo_pc, park_token, fut_waker, res, polls, wakes, spurious,
                   raced>>
    /\ UNCHANGED <<dequeVars, trieVars>>

\* the completed future wakes the waker it holds, if any: ThreadWaker::wake
Notify ==
    /\ fut_notify
    /\ fut_notify' = FALSE
    /\ park_token' = IF fut_waker THEN wake(Thread).token ELSE park_token
    /\ raced' = (raced \/ (fut_waker /\ bo_pc = "park"))
    /\ UNCHANGED <<bo_pc, fut_ready, fut_waker, res, polls, wakes, spurious>>
    /\ UNCHANGED <<dequeVars, trieVars>>

\* any other call of ThreadWaker::wake on a clone the future holds
ExtraWake ==
    /\ fut_waker
    /\ wakes < MaxWakes
    /\ wakes' = wakes + 1
    /\ park_token' = wake(Thread).token
    /\ UNCHANGED <<bo_pc, fut_ready, fut_waker, fut_notify, res, polls,
                   spurious, raced>>
    /\ UNCHANGED <<dequeVars, trieVars>>

\* The calling thread may enter block_on with a token left by an earlier
\* unpark.
InitBlockOn ==
    /\ InitData
    /\ InitAsync
    /\ park_token \in BOOLEAN

NextBlockOn ==
    \/ Poll
    \/ Park
    \/ Unparked
    \/ SpuriousUnpark
    \/ \E v \in Outs : Complete(v)
    \/ Notify
    \/ ExtraWake

\* The thread running block_on keeps running while it is not blocked, and a
\* future that became ready does wake its waker.
SpecBlockOn ==
    /\ InitBlockOn
    /\ [][NextBlockOn]_vars
    /\ WF_vars(Poll)
    /\ WF_vars(Park)
    /\ WF_vars(Unparked)
    /\ WF_vars(Notify)

\* block_on has returned exactly when res holds a value, and the value is
\* the future's output
C22_Returned ==
    /\ (bo_pc = "done") <=> (res # None)
    /\ (res # None) => (res = fut_ready)

\* one step of block_on and of the future
C22_Step ==
    /\ (bo_pc # "done" /\ bo_pc' = "done")
          <=> (bo_pc = "poll" /\ polls' = polls + 1 /\ fut_ready # None)
    /\ (bo_pc # "done" /\ bo_pc' = "done") => (res' = fut_ready)
    /\ (polls' = polls + 1 /\ fut_ready = None)
          => (bo_pc' = "park" /\ res' = None /\ fut_waker')
    /\ (polls' = polls + 1) => (bo_pc = "poll")
    /\ (bo_pc = "park" /\ bo_pc' # "park")
          => (IF park_token THEN bo_pc' = "poll" ELSE bo_pc' = "parked")
    /\ (bo_pc = "parked" /\ bo_pc' # "parked") => (bo_pc' = "poll")
    /\ (park_token /\ ~park_token')
          => (bo_pc \in {"park", "parked"} /\ bo_pc' = "poll")
    /\ (bo_pc = "done") => (bo_pc' = "done" /\ res' = res)

\* C22: block_on returns exactly when a poll yields Ready, with that poll's
\* value; after a Pending poll it calls thread::park and polls again once
\* park returns; a token set by ThreadWaker::wake stays set until park
\* consumes it, so park returns at once when the wake came before it; and
\* once the future is ready (and wakes its waker) block_on eventually
\* returns.
C22_BlockOnCompletes ==
    /\ [] C22_Returned
    /\ [][C22_Step]_vars
    /\ ((fut_ready # None) ~> (bo_pc = "done"))

\* block_on returned after exactly this run: a Pending poll, the future
\* becoming ready and waking before thread::park was called, park returning
\* at once, and a second poll yielding Ready
C22_Witness ==
    /\ bo_pc = "done" /\ res # None /\ res = fut_ready
    /\ raced /\ polls = 2 /\ wakes = 0 /\ spurious = 0

====
